---- MODULE Spec2Model ----
(***************************************************************************)
(* Model of the crossword CSP solver, src/3.Optimization/crossword/        *)
(* generate.py (class CrosswordCreator): node consistency, AC-3 and the    *)
(* backtracking search, as a state machine.                                *)
(*                                                                         *)
(* Words are sequences of letter codes (A = 1 .. Z = 26), so that the      *)
(* character comparisons and the string ordering of the code are computed. *)
(* Python indexes from 0 and TLA+ from 1: overlap indices are kept 0-based *)
(* as in the code and a character is read with Char(word, i).              *)
(***************************************************************************)
EXTENDS Naturals, Integers, Sequences, FiniteSets

VARIABLES
    crossword,    \* the Crossword: [variables, words] (immutable)
    order,        \* iteration order of the sets of this process: [vars, nbrs]
    domains,      \* self.domains: slot -> set of words
    pc,           \* position of the program
    queue,        \* ac3's local `queue`
    afterNode,    \* history: self.domains when enforce_node_consistency returned
    ac3Log,       \* history: one [ret, before, after] per finished ac3 call
    assignment,   \* the dict handed down the backtrack recursion
    stack,        \* the active backtrack frames: [var, values, entry]
    retval,       \* value returned by the backtrack call that just returned
    btCalls,      \* history: number of backtrack invocations so far
    result,       \* what solve() returned
    previous      \* history: [ran, result, same] of the run before this one

vars == <<crossword, order, domains, pc, queue, afterNode, ac3Log,
          assignment, stack, retval, btCalls, result, previous>>

----------------------------------------------------------------------------
(* Bounds of the model *)

\* largest word list drawn from Vocabulary
MaxWords == 4

\* the longest initial worklist handed to ac3(arcs), and the longest word
\* list of the puzzles on which ac3(arcs) is followed to its return
MaxArcs == 1
MaxArcWords == 2

----------------------------------------------------------------------------
(* Words *)

CAT == <<3, 1, 20>>
DOG == <<4, 15, 7>>
TOY == <<20, 15, 25>>
AGE == <<1, 7, 5>>
ACT == <<1, 3, 20>>
ATE == <<1, 20, 5>>
EEL == <<5, 5, 12>>
TO == <<20, 15>>
AT == <<1, 20>>

Vocabulary == {CAT, DOG, TOY, AGE, ACT, ATE, EEL, TO, AT}

WordLists == {ws \in SUBSET Vocabulary : Cardinality(ws) <= MaxWords}

\* word[i] of Python (0-based)
Char(word, i) == word[i + 1]

\* a < b for Python strings: lexicographic, a proper prefix is smaller
RECURSIVE StrLess(_, _)
StrLess(a, b) ==
    IF b = <<>> THEN FALSE
    ELSE IF a = <<>> THEN TRUE
    ELSE IF Head(a) # Head(b) THEN Head(a) < Head(b)
    ELSE StrLess(Tail(a), Tail(b))

----------------------------------------------------------------------------
(* The puzzle description: slots, their cells, the overlap table *)

ACROSS == "across"
DOWN == "down"

Variable(i, j, direction, length) ==
    [i |-> i, j |-> j, direction |-> direction, length |-> length]

\* one slot
StructureOne == {Variable(0, 0, ACROSS, 3)}
\* two slots that do not cross
StructureApart == {Variable(0, 0, ACROSS, 3), Variable(2, 0, ACROSS, 3)}
\* two slots crossing at index 1 of the across slot, index 0 of the down slot
StructureCross == {Variable(0, 0, ACROSS, 3), Variable(0, 1, DOWN, 3)}
\* three slots in an H: the across slot crosses both down slots
StructureH == {Variable(0, 0, DOWN, 3), Variable(1, 0, ACROSS, 3),
               Variable(0, 2, DOWN, 3)}

\* two slots of different lengths that do not cross
StructureMixed == {Variable(0, 0, ACROSS, 3), Variable(2, 0, ACROSS, 2)}
\* two slots of different lengths sharing their first cell
StructureCorner == {Variable(0, 0, ACROSS, 2), Variable(0, 0, DOWN, 3)}

Structures == {StructureOne, StructureApart, StructureCross, StructureH,
               StructureMixed, StructureCorner}

\* cell k (0-based) of a slot
Cell(v, k) ==
    <<v.i + (IF v.direction = DOWN THEN k ELSE 0),
      v.j + (IF v.direction = ACROSS THEN k ELSE 0)>>

None == <<>>

\* overlaps[x, y]: None, or <<i, j>> with cell i of x = cell j of y
overlaps(x, y) ==
    LET common == {p \in (0 .. x.length - 1) \X (0 .. y.length - 1) :
                      Cell(x, p[1]) = Cell(y, p[2])}
    IN  IF x = y \/ common = {} THEN None ELSE CHOOSE p \in common : TRUE

\* the orders in which a set can be iterated
Orders(S) ==
    {s \in [1 .. Cardinality(S) -> S] :
        \A a, b \in 1 .. Cardinality(S) : a # b => s[a] # s[b]}

\* the slots of `variables` that cross var
NeighborsIn(variables, var) ==
    {v \in variables : v # var /\ overlaps(v, var) # None}

\* crossword.neighbors(var)
neighbors(var) == NeighborsIn(crossword.variables, var)

IterationOrders(variables) ==
    LET all == UNION {Orders(NeighborsIn(variables, v)) : v \in variables}
    IN  {[vars |-> vo, nbrs |-> no] :
            vo \in Orders(variables),
            no \in {f \in [variables -> all] :
                      \A v \in variables : f[v] \in Orders(NeighborsIn(variables, v))}}

----------------------------------------------------------------------------
(* Values *)

EmptyAssignment == [v \in {} |-> <<>>]

NoneResult == [none |-> TRUE, value |-> EmptyAssignment]
Some(a) == [none |-> FALSE, value |-> a]
Pending == [none |-> FALSE, value |-> EmptyAssignment]

----------------------------------------------------------------------------
(* __init__ *)

Init ==
    /\ crossword \in {[variables |-> st, words |-> ws] :
                         st \in Structures, ws \in WordLists}
    /\ order \in IterationOrders(crossword.variables)
    /\ domains = [var \in crossword.variables |-> crossword.words]
    /\ pc = "constructed"
    /\ queue = <<>>
    /\ afterNode = [var \in crossword.variables |-> crossword.words]
    /\ ac3Log = <<>>
    /\ assignment = EmptyAssignment
    /\ stack = <<>>
    /\ retval = Pending
    /\ btCalls = 0
    /\ result = Pending
    /\ previous = [ran |-> FALSE, result |-> Pending, same |-> TRUE]

----------------------------------------------------------------------------
(* enforce_node_consistency *)

\* mutant: shorter words are kept too
NodeConsistentDomain_atmost(var, words) ==
    {word \in words : Len(word) <= var.length}

NodeConsistentDomain(var, words) == {word \in words : Len(word) = var.length}

enforce_node_consistency ==
    /\ pc = "constructed"
    /\ domains' = [var \in crossword.variables |->
                      NodeConsistentDomain(var, domains[var])]
    /\ afterNode' = domains'
    /\ pc' = "ac3_call"
    /\ UNCHANGED <<previous, crossword, order, queue, ac3Log, assignment, stack,
                   retval, btCalls, result>>

----------------------------------------------------------------------------
(* revise *)

\* the comparison x_val[i] == y_val[j] reads past the end of a word
IndexError(x, y) ==
    /\ overlaps(x, y) # None
    /\ \E x_val \in domains[x], y_val \in domains[y] :
          \/ overlaps(x, y)[1] >= Len(x_val)
          \/ overlaps(x, y)[2] >= Len(y_val)

\* mutant: the two indices of the overlap are mixed up
FoundMatch_swapped_indices(x_val, ys, i, j) ==
    \E y_val \in ys : Char(x_val, j) = Char(y_val, i)

\* found_match of revise, for x_val against the domain ys of y
FoundMatch(x_val, ys, i, j) == \E y_val \in ys : Char(x_val, i) = Char(y_val, j)

\* mutant: x and y mixed up, the matching words of y are stored for x
RevisedDomain_swapped(doms, x, y) ==
    IF overlaps(x, y) = None THEN doms[x]
    ELSE {y_val \in doms[y] :
             \E x_val \in doms[x] :
                 Char(x_val, overlaps(x, y)[1]) = Char(y_val, overlaps(x, y)[2])}

\* self.domains[x] when revise(x, y) returns, from the store doms
RevisedDomain(doms, x, y) ==
    IF overlaps(x, y) = None THEN doms[x]
    ELSE {x_val \in doms[x] :
             FoundMatch(x_val, doms[y], overlaps(x, y)[1], overlaps(x, y)[2])}

\* mutant: revised is never set
revise_never(doms, x, y) == FALSE

\* mutant: revise reports a revision whether or not it removed a word
revise_always(doms, x, y) == TRUE

\* the value revise(x, y) returns: a word was removed
revise(doms, x, y) == RevisedDomain(doms, x, y) # doms[x]

----------------------------------------------------------------------------
(* ac3 *)

RECURSIVE Concat(_, _)
\* the sequences f[s[k]], ..., f[s[Len(s)]] one after the other
Concat(f, s) == IF s = <<>> THEN <<>> ELSE f[Head(s)] \o Concat(f, Tail(s))

\* the arcs (var1, var2), var2 iterated over neighbors(var1)
ArcsFrom(var1) == [k \in DOMAIN order.nbrs[var1] |-> <<var1, order.nbrs[var1][k]>>]

\* the initial queue when arcs is None
InitialQueue == Concat([var1 \in crossword.variables |-> ArcsFrom(var1)], order.vars)

\* mutant: nothing is appended after a revision
Requeued_none(x, y) == <<>>

\* mutant: the arcs are appended as (x, z)
Requeued_reversed(x, y) ==
    LET zs == SelectSeq(order.nbrs[x], LAMBDA z : z # y)
    IN  [k \in DOMAIN zs |-> <<x, zs[k]>>]

\* the arcs (z, x) appended after a revision of x against y
Requeued(x, y) ==
    LET zs == SelectSeq(order.nbrs[x], LAMBDA z : z # y)
    IN  [k \in DOMAIN zs |-> <<zs[k], x>>]

\* ac3(): lines 159-163, the queue of all arcs
ac3_seed ==
    /\ pc = "ac3_call"
    /\ queue' = InitialQueue
    /\ pc' = "ac3_loop"
    /\ UNCHANGED <<previous, crossword, order, domains, afterNode, ac3Log, assignment,
                   stack, retval, btCalls, result>>

\* one iteration of the while loop: pop an arc, revise, return False or requeue
ac3_step ==
    /\ pc = "ac3_loop"
    /\ queue # <<>>
    /\ LET x == Head(queue)[1]
           y == Head(queue)[2]
           dx == RevisedDomain(domains, x, y)
       IN  IF IndexError(x, y)
           THEN /\ pc' = "raised"
                /\ UNCHANGED <<domains, queue, ac3Log>>
           ELSE /\ domains' = [domains EXCEPT ![x] = dx]
                /\ IF revise(domains, x, y) /\ dx = {}
                   THEN /\ pc' = "ac3_returned"
                        /\ queue' = Tail(queue)
                        /\ ac3Log' = Append(ac3Log, [ret |-> FALSE, domains |-> domains'])
                   ELSE /\ pc' = "ac3_loop"
                        /\ queue' = IF revise(domains, x, y)
                                    THEN Tail(queue) \o Requeued(x, y)
                                    ELSE Tail(queue)
                        /\ UNCHANGED ac3Log
    /\ UNCHANGED <<previous, crossword, order, afterNode, assignment, stack, retval,
                   btCalls, result>>

\* the queue is empty: return True
ac3_exit ==
    /\ pc = "ac3_loop"
    /\ queue = <<>>
    /\ pc' = "ac3_returned"
    /\ ac3Log' = Append(ac3Log, [ret |-> TRUE, domains |-> domains])
    /\ UNCHANGED <<previous, crossword, order, domains, queue, afterNode, assignment,
                   stack, retval, btCalls, result>>

\* a caller invokes ac3() once more on the store the first call left
ac3_again ==
    /\ pc = "ac3_returned"
    /\ Len(ac3Log) = 1
    /\ pc' = "ac3_call"
    /\ UNCHANGED <<previous, crossword, order, domains, queue, afterNode, ac3Log,
                   assignment, stack, retval, btCalls, result>>

----------------------------------------------------------------------------
(* assignment_complete, consistent *)

assignment_complete(a) == \A v \in crossword.variables : v \in DOMAIN a

\* mutant: the uniqueness check is left out
AllDifferent_off(a) == TRUE

\* len(words) != len(set(words)) is false: no word is used twice
AllDifferent(a) == \A u, v \in DOMAIN a : u # v => a[u] # a[v]

\* mutant: the neighbors are not compared
consistent_no_overlap(a) ==
    /\ AllDifferent(a)
    /\ \A var \in DOMAIN a : var.length = Len(a[var])

consistent(a) ==
    /\ AllDifferent(a)
    /\ \A var \in DOMAIN a :
          /\ var.length = Len(a[var])
          /\ \A neighbor \in neighbors(var) :
                neighbor \in DOMAIN a =>
                    Char(a[var], overlaps(var, neighbor)[1])
                        = Char(a[neighbor], overlaps(var, neighbor)[2])

----------------------------------------------------------------------------
(* order_domain_values *)

RECURSIVE SumOver(_, _)
SumOver(f, S) ==
    IF S = {} THEN 0
    ELSE LET e == CHOOSE e \in S : TRUE IN f[e] + SumOver(f, S \ {e})

\* the words of the neighbor's domain that word_x rules out
RuledOut(word_x, var, neighbor) ==
    {word_y \in domains[neighbor] :
        Char(word_x, overlaps(var, neighbor)[1])
            # Char(word_y, overlaps(var, neighbor)[2])}

\* mutant: the neighbors already assigned are counted too
EliminatedCount_all(word_x, var, a) ==
    SumOver([neighbor \in neighbors(var) |->
                Cardinality(RuledOut(word_x, var, neighbor))], neighbors(var))

\* eliminated_count of word_x
EliminatedCount(word_x, var, a) ==
    LET open == {neighbor \in neighbors(var) : neighbor \notin DOMAIN a}
    IN  SumOver([neighbor \in open |-> Cardinality(RuledOut(word_x, var, neighbor))],
                open)

\* mutant: sorted in descending order
ScoreLess_descending(s1, w1, s2, w2) == s1 > s2 \/ (s1 = s2 /\ StrLess(w2, w1))

\* (score1, word1) < (score2, word2) for Python tuples
ScoreLess(s1, w1, s2, w2) == s1 < s2 \/ (s1 = s2 /\ StrLess(w1, w2))

RECURSIVE SortedWords(_, _, _)
\* [word for score, word in sorted(scores)], scores over the words ws
SortedWords(ws, var, a) ==
    IF ws = {} THEN <<>>
    ELSE LET first == CHOOSE w \in ws : \A v \in ws \ {w} :
                          ScoreLess(EliminatedCount(w, var, a), w,
                                    EliminatedCount(v, var, a), v)
         IN  <<first>> \o SortedWords(ws \ {first}, var, a)

order_domain_values(var, a) == SortedWords(domains[var], var, a)

----------------------------------------------------------------------------
(* select_unassigned_variable *)

\* unassigned_vars, in the iteration order of crossword.variables
UnassignedVars(a) == SelectSeq(order.vars, LAMBDA var : var \notin DOMAIN a)

Degree(var) == Cardinality(neighbors(var))

\* mutant: the larger domain sorts first
KeyLess_largest(u, v) ==
    \/ Cardinality(domains[u]) > Cardinality(domains[v])
    \/ /\ Cardinality(domains[u]) = Cardinality(domains[v])
       /\ Degree(u) > Degree(v)

\* key(u) < key(v): (len(domains), -degree) compared as tuples
KeyLess(u, v) ==
    \/ Cardinality(domains[u]) < Cardinality(domains[v])
    \/ /\ Cardinality(domains[u]) = Cardinality(domains[v])
       /\ Degree(u) > Degree(v)

\* mutant: the list is not sorted
select_unsorted(a) == UnassignedVars(a)[1]

\* unassigned_vars[0] after the stable sort: the first of the smallest keys
select_unassigned_variable(a) ==
    LET us == UnassignedVars(a)
        k == CHOOSE k \in DOMAIN us :
                /\ \A m \in DOMAIN us : ~KeyLess(us[m], us[k])
                /\ \A m \in 1 .. k - 1 : KeyLess(us[k], us[m])
    IN  us[k]

----------------------------------------------------------------------------
(* solve, backtrack *)

Top == stack[Len(stack)]
Pop == SubSeq(stack, 1, Len(stack) - 1)

\* assignment[var] = value
Assign(a, var, value) ==
    [v \in DOMAIN a \cup {var} |-> IF v = var THEN value ELSE a[v]]

\* mutant: the entry is not removed
Delete_nothing(a, var) == a

\* del assignment[var]
Delete(a, var) == [v \in DOMAIN a \ {var} |-> a[v]]

\* solve(), line 94: self.backtrack(dict()), whatever ac3 returned
solve_search ==
    /\ pc = "ac3_returned"
    /\ assignment' = EmptyAssignment
    /\ pc' = "bt_enter"
    /\ UNCHANGED <<previous, crossword, order, domains, queue, afterNode, ac3Log,
                   stack, retval, btCalls, result>>

\* entry of backtrack: the base case, or select a variable and order its values
bt_enter ==
    /\ pc = "bt_enter"
    /\ btCalls' = btCalls + 1
    /\ IF assignment_complete(assignment)
       THEN /\ retval' = Some(assignment)
            /\ pc' = "bt_return"
            /\ UNCHANGED stack
       ELSE IF UnassignedVars(assignment) = <<>>
       THEN \* select_unassigned_variable returns None: self.domains[None]
            /\ pc' = "raised"
            /\ UNCHANGED <<stack, retval>>
       ELSE LET var == select_unassigned_variable(assignment)
            IN  /\ stack' = Append(stack,
                        [var |-> var,
                         values |-> order_domain_values(var, assignment),
                         entry |-> assignment])
                /\ pc' = "bt_loop"
                /\ UNCHANGED retval
    /\ UNCHANGED <<previous, crossword, order, domains, queue, afterNode, ac3Log,
                   assignment, result>>

\* mutant: the chosen value also replaces the slot's domain
bt_assign_narrows ==
    /\ pc = "bt_loop"
    /\ Top.values # <<>>
    /\ assignment' = Assign(assignment, Top.var, Head(Top.values))
    /\ domains' = [domains EXCEPT ![Top.var] = {Head(Top.values)}]
    /\ pc' = "bt_check"
    /\ UNCHANGED <<previous, crossword, order, queue, afterNode, ac3Log,
                   stack, retval, btCalls, result>>

\* the for loop takes the next value: assignment[var] = value
bt_assign ==
    /\ pc = "bt_loop"
    /\ Top.values # <<>>
    /\ assignment' = Assign(assignment, Top.var, Head(Top.values))
    /\ pc' = "bt_check"
    /\ UNCHANGED <<previous, crossword, order, domains, queue, afterNode, ac3Log,
                   stack, retval, btCalls, result>>

\* if self.consistent(assignment): recurse; otherwise del assignment[var]
bt_check ==
    /\ pc = "bt_check"
    /\ IF consistent(assignment)
       THEN /\ pc' = "bt_enter"
            /\ UNCHANGED <<assignment, stack>>
       ELSE /\ assignment' = Delete(assignment, Top.var)
            /\ stack' = Append(Pop, [Top EXCEPT !.values = Tail(@)])
            /\ pc' = "bt_loop"
    /\ UNCHANGED <<previous, crossword, order, domains, queue, afterNode, ac3Log,
                   retval, btCalls, result>>

\* mutant: the last line returns the assignment
bt_exhausted_returns_assignment ==
    /\ pc = "bt_loop"
    /\ Top.values = <<>>
    /\ stack' = Pop
    /\ retval' = Some(assignment)
    /\ pc' = "bt_return"
    /\ UNCHANGED <<previous, crossword, order, domains, queue, afterNode, ac3Log,
                   assignment, btCalls, result>>

\* the for loop is over: return None
bt_exhausted ==
    /\ pc = "bt_loop"
    /\ Top.values = <<>>
    /\ stack' = Pop
    /\ retval' = NoneResult
    /\ pc' = "bt_return"
    /\ UNCHANGED <<previous, crossword, order, domains, queue, afterNode, ac3Log,
                   assignment, btCalls, result>>

\* mutant: the result of the recursive call is returned even when it is None
bt_return_gives_up ==
    /\ pc = "bt_return"
    /\ stack # <<>>
    /\ stack' = Pop
    /\ assignment' = IF retval.none THEN Delete(assignment, Top.var) ELSE assignment
    /\ UNCHANGED <<previous, crossword, order, domains, pc, queue, afterNode, ac3Log,
                   retval, btCalls, result>>

\* the recursive call returned into the frame on top of the stack
\* mutant: a result that is not None does not end the loop
bt_return_keeps_searching ==
    /\ pc = "bt_return"
    /\ stack # <<>>
    /\ assignment' = Delete(assignment, Top.var)
    /\ stack' = Append(Pop, [Top EXCEPT !.values = Tail(@)])
    /\ pc' = "bt_loop"
    /\ UNCHANGED <<previous, crossword, order, domains, queue, afterNode, ac3Log,
                   retval, btCalls, result>>

bt_return ==
    /\ pc = "bt_return"
    /\ stack # <<>>
    /\ IF ~retval.none
       THEN \* return result
            /\ stack' = Pop
            /\ UNCHANGED <<assignment, pc>>
       ELSE /\ assignment' = Delete(assignment, Top.var)
            /\ stack' = Append(Pop, [Top EXCEPT !.values = Tail(@)])
            /\ pc' = "bt_loop"
    /\ UNCHANGED <<previous, crossword, order, domains, queue, afterNode, ac3Log,
                   retval, btCalls, result>>

\* the top-level backtrack call returned: solve returns its value
solve_return ==
    /\ pc = "bt_return"
    /\ stack = <<>>
    /\ result' = retval
    /\ pc' = "done"
    /\ UNCHANGED <<previous, crossword, order, domains, queue, afterNode, ac3Log,
                   assignment, stack, retval, btCalls>>

----------------------------------------------------------------------------
(* Specifications *)

\* one run of solve()
Next ==
    \/ enforce_node_consistency
    \/ ac3_seed
    \/ ac3_step
    \/ ac3_exit
    \/ solve_search
    \/ bt_enter
    \/ bt_assign
    \/ bt_check
    \/ bt_exhausted
    \/ bt_return
    \/ solve_return

Spec == Init /\ [][Next]_vars

\* the program is run a second time on the same input: a new process, whose
\* sets iterate in an order of their own
rerun ==
    /\ pc = "done"
    /\ ~previous.ran
    /\ order' \in IterationOrders(crossword.variables)
    /\ previous' = [ran |-> TRUE, result |-> result, same |-> order' = order]
    /\ domains' = [var \in crossword.variables |-> crossword.words]
    /\ afterNode' = domains'
    /\ pc' = "constructed"
    /\ queue' = <<>>
    /\ ac3Log' = <<>>
    /\ assignment' = EmptyAssignment
    /\ stack' = <<>>
    /\ retval' = Pending
    /\ btCalls' = 0
    /\ result' = Pending
    /\ UNCHANGED crossword

NextTwoRuns ==
    \/ Next
    \/ rerun

SpecTwoRuns == Init /\ [][NextTwoRuns]_vars

\* the search alone, started from the empty assignment on a store set by the
\* caller: two crossing slots, each domain a set of the four scenario words
ScenarioWords == {CAT, DOG, TOY, AGE}

InitSearch ==
    /\ crossword = [variables |-> StructureCross, words |-> ScenarioWords]
    /\ order \in IterationOrders(crossword.variables)
    /\ domains \in [crossword.variables -> SUBSET ScenarioWords]
    /\ pc = "bt_enter"
    /\ queue = <<>>
    /\ afterNode = domains
    /\ ac3Log = <<>>
    /\ assignment = EmptyAssignment
    /\ stack = <<>>
    /\ retval = Pending
    /\ btCalls = 0
    /\ result = Pending
    /\ previous = [ran |-> FALSE, result |-> Pending, same |-> TRUE]

NextSearch ==
    \/ bt_enter
    \/ bt_assign
    \/ bt_check
    \/ bt_exhausted
    \/ bt_return
    \/ solve_return

SpecSearch == InitSearch /\ [][NextSearch]_vars

\* node consistency, then ac3() called twice in succession
NextAc3 ==
    \/ enforce_node_consistency
    \/ ac3_seed
    \/ ac3_step
    \/ ac3_exit
    \/ ac3_again

SpecAc3 == Init /\ [][NextAc3]_vars

\* ac3(arcs) on every initial worklist of at most MaxArcs arcs, and ac3()
\* with arcs = None; the state at the entry of ac3, the domains being those
\* enforce_node_consistency leaves
ArcPairs(variables) == {p \in variables \X variables : p[1] # p[2]}

\* four slots around a square: each across slot crosses both down slots, so
\* the arcs form a cycle
StructureSquare == {Variable(0, 0, ACROSS, 3), Variable(2, 0, ACROSS, 3),
                    Variable(0, 0, DOWN, 3), Variable(0, 2, DOWN, 3)}

ArcStructures == Structures \cup {StructureSquare}

ArcWordLists == {ws \in SUBSET Vocabulary : Cardinality(ws) <= MaxArcWords}

ArcLists(variables) ==
    UNION {[1 .. n -> ArcPairs(variables)] : n \in 0 .. MaxArcs}

\* one order in which a set can be iterated
OneOrder(S) == CHOOSE s \in Orders(S) : TRUE

\* the iteration orders enumerated for ac3(): all of them, one for the square
SeedOrders(variables) ==
    IF variables = StructureSquare
    THEN {[vars |-> OneOrder(variables),
           nbrs |-> [v \in variables |-> OneOrder(NeighborsIn(variables, v))]]}
    ELSE IterationOrders(variables)

\* the iteration orders enumerated for ac3(arcs): lines 159-163 are skipped
\* and self.crossword.variables is not iterated, so one order of the slots
\* is enumerated, with every order of the neighbors
ArcOrders(variables) ==
    LET one == OneOrder(variables)
    IN  {o \in IterationOrders(variables) : o.vars = one}

InitArcs ==
    /\ crossword \in {[variables |-> st, words |-> ws] :
                         st \in ArcStructures, ws \in ArcWordLists}
    /\ domains = [var \in crossword.variables |->
                     NodeConsistentDomain(var, crossword.words)]
    /\ \/ /\ pc = "ac3_call"
          /\ order \in SeedOrders(crossword.variables)
          /\ queue = <<>>
       \/ /\ pc = "ac3_loop"
          /\ crossword.variables # StructureSquare
          /\ order \in ArcOrders(crossword.variables)
          /\ queue \in ArcLists(crossword.variables)
    /\ afterNode = domains
    /\ ac3Log = <<>>
    /\ assignment = EmptyAssignment
    /\ stack = <<>>
    /\ retval = Pending
    /\ btCalls = 0
    /\ result = Pending
    /\ previous = [ran |-> FALSE, result |-> Pending, same |-> TRUE]

NextArcs ==
    \/ ac3_seed
    \/ ac3_step
    \/ ac3_exit

\* ac3 runs in one thread from its entry to its return: a step that can be
\* taken is taken
SpecArcs == InitArcs /\ [][NextArcs]_vars /\ WF_vars(NextArcs)

----------------------------------------------------------------------------
(* What the claims speak of *)

Finished == pc = "done"
ReturnedAssignment == Finished /\ ~result.none
ReturnedNone == Finished /\ result.none

\* a is a solution of the puzzle: every slot has a word of the word list,
\* the words are pairwise distinct, fit their slots and agree where slots cross
IsSolution(a) ==
    /\ DOMAIN a = crossword.variables
    /\ \A v \in crossword.variables : a[v] \in crossword.words
    /\ \A u, v \in crossword.variables : u # v => a[u] # a[v]
    /\ \A v \in crossword.variables : Len(a[v]) = v.length
    /\ \A u, v \in crossword.variables :
          overlaps(u, v) # None =>
              a[u][overlaps(u, v)[1] + 1] = a[v][overlaps(u, v)[2] + 1]

Solvable == \E a \in [crossword.variables -> crossword.words] : IsSolution(a)

\* the store doms is arc consistent
ArcConsistent(doms) ==
    \A x, y \in crossword.variables :
        overlaps(x, y) # None =>
            \A wx \in doms[x] : \E wy \in doms[y] :
                wx[overlaps(x, y)[1] + 1] = wy[overlaps(x, y)[2] + 1]

SomeEmpty(doms) == \E v \in crossword.variables : doms[v] = {}

Ac3Returned == Len(ac3Log) >= 1
Ac3Failed == Len(ac3Log) >= 1 /\ ~ac3Log[1].ret
NodeDone == pc # "constructed"

----------------------------------------------------------------------------
(* Claims *)

\* C1: an assignment returned by solve() gives every slot exactly one word,
\* the words are pairwise distinct, each has its slot's length, and the
\* characters at the overlap indices of every crossing pair are equal.
C1_ReturnedAssignmentValid ==
    ReturnedAssignment => IsSolution(result.value)

\* C1 witness: solve() returned an assignment for the H of three crossing slots
C1_Witness ==
    ReturnedAssignment /\ crossword.variables = StructureH

\* C2: solve() is complete: when a solution exists solve() returns an
\* assignment, so it returns None only when none exists; it never raises.
C2_Complete ==
    /\ pc # "raised"
    /\ Finished /\ Solvable => ~result.none

\* C2 witness: a solvable H puzzle solved after some candidate was undone
C2_Witness ==
    /\ ReturnedAssignment /\ Solvable
    /\ btCalls > Cardinality(crossword.variables) + 1

\* C2 witness of the degenerate case: two apart slots, one word, None
C2_WitnessUnique ==
    /\ ReturnedNone
    /\ crossword.variables = StructureApart
    /\ crossword.words = {CAT}

\* C3 as stated: after ac3 returned False, backtrack is never invoked and
\* solve() returns None.
C3_Original ==
    Ac3Failed => btCalls = 0 /\ (Finished => result.none)

\* C3 amended: after ac3 returned False, solve() still calls backtrack once,
\* on the empty assignment; that call tries no word, makes no recursive call
\* and returns None, which solve() returns.
C3_FailedAc3GivesNone ==
    Ac3Failed =>
        /\ btCalls <= 1
        /\ assignment = EmptyAssignment
        /\ pc \in {"ac3_returned", "bt_enter", "bt_loop", "bt_return", "done"}
        /\ pc \in {"bt_return", "done"} => retval.none
        /\ Finished => result.none /\ btCalls = 1

\* C3 witness: solve() has returned after ac3 returned False while another
\* slot still had words
C3_Witness ==
    /\ Finished /\ Ac3Failed
    /\ \E v \in crossword.variables : domains[v] # {}

\* C4 as stated: with an empty domain after node consistency, solve()
\* returns None and backtrack is not invoked.
C4_Original ==
    NodeDone /\ SomeEmpty(afterNode) =>
        btCalls = 0 /\ (Finished => result.none)

\* C4 amended: with an empty domain after node consistency, solve() returns
\* None; backtrack is invoked exactly once, at the top level, and that call
\* assigns no word and does not recurse.
C4_EmptyAfterNodeGivesNone ==
    NodeDone /\ SomeEmpty(afterNode) =>
        /\ DOMAIN assignment = {}
        /\ Len(stack) <= 1
        /\ pc \notin {"bt_check", "raised"}
        /\ btCalls <= 1
        /\ Finished => result.none /\ btCalls = 1

\* C4 witness: solve() has returned; one slot had no word after node
\* consistency while another slot had some
C4_Witness ==
    /\ Finished
    /\ SomeEmpty(afterNode)
    /\ \E v \in crossword.variables : afterNode[v] # {}

\* C5: when a domain is empty once node and arc consistency have finished,
\* solve() raises nothing, runs on until it returns, and returns None, never
\* a partial or complete assignment.
C5_EmptyDomainGivesNone ==
    /\ pc # "raised"
    /\ Ac3Returned /\ SomeEmpty(ac3Log[1].domains) =>
          /\ pc = "bt_return" => retval.none
          /\ Finished => result.none
          /\ ~Finished => ENABLED Next

\* C5 witness: solve() returned None after ac3 emptied a domain that node
\* consistency had left non-empty
C5_Witness ==
    /\ ReturnedNone /\ Ac3Failed
    /\ \A v \in crossword.variables : afterNode[v] # {}

\* C6 as stated: whenever ac3 returns True every slot's domain is non-empty,
\* also when a domain was already empty after node consistency.
C6_Original ==
    \A k \in DOMAIN ac3Log : ac3Log[k].ret => ~SomeEmpty(ac3Log[k].domains)

\* C7: when ac3 (default seeding) returns True, every word of every domain
\* has a word in each neighbor's domain with the same character at the overlap.
C7_ArcConsistent ==
    \A k \in DOMAIN ac3Log : ac3Log[k].ret => ArcConsistent(ac3Log[k].domains)

\* C7 witness: ac3 returned True on the H after removing words, with no
\* domain empty
C7_Witness ==
    /\ Ac3Returned /\ ac3Log[1].ret
    /\ crossword.variables = StructureH
    /\ ac3Log[1].domains # afterNode
    /\ ~SomeEmpty(ac3Log[1].domains)

\* C8: after a call of ac3 that returned True, a second call removes no word
\* at any step and returns True.
C8_IdempotentAfterTrue ==
    Ac3Returned /\ ac3Log[1].ret =>
        /\ domains = ac3Log[1].domains
        /\ Len(ac3Log) = 2 => ac3Log[2].ret /\ ac3Log[2].domains = ac3Log[1].domains

\* C8 witness: the second call has returned after a first call that pruned
\* the H and returned True
C8_Witness ==
    /\ Len(ac3Log) = 2 /\ ac3Log[1].ret
    /\ crossword.variables = StructureH
    /\ ac3Log[1].domains # afterNode

\* C9 as stated: the domains after the second call equal the domains after
\* the first, whatever the first call returned.
C9_Original ==
    Len(ac3Log) = 2 => ac3Log[2].domains = ac3Log[1].domains

\* C9 amended: the second call changes no domain when the first call
\* returned True; after a first call that returned False the second call may
\* remove further words, and every domain after it is a subset of the domain
\* after the first call.
C9_SecondCallOnlyShrinks ==
    Len(ac3Log) = 2 =>
        /\ ac3Log[1].ret => ac3Log[2].domains = ac3Log[1].domains
        /\ \A v \in crossword.variables :
              ac3Log[2].domains[v] \subseteq ac3Log[1].domains[v]

\* C9 witness: a first call that returned False, and a second call that
\* removed further words
C9_Witness ==
    /\ Len(ac3Log) = 2 /\ ~ac3Log[1].ret
    /\ ac3Log[2].domains # ac3Log[1].domains

\* C10: no step adds a word to a domain, and from the return of
\* enforce_node_consistency on every domain is a subset of what it was then.
C10_DomainsOnlyShrink ==
    [][/\ \A v \in crossword.variables : domains'[v] \subseteq domains[v]
       /\ \A v \in crossword.variables : domains'[v] \subseteq afterNode'[v]]_vars

\* C10 witness: the search is trying a word with a domain smaller than it
\* was after node consistency
C10_Witness ==
    /\ pc = "bt_check"
    /\ \E v \in crossword.variables :
          domains[v] # afterNode[v] /\ domains[v] \subseteq afterNode[v]

\* C11: after the constructor every domain is the whole word list, and after
\* enforce_node_consistency every domain is exactly the words of the word
\* list that have the slot's length; no error is raised, also for a slot
\* left without a word.
C11_DomainsByLength ==
    /\ pc # "raised"
    /\ pc = "constructed" =>
          \A v \in crossword.variables : domains[v] = crossword.words
    /\ NodeDone =>
          \A v \in crossword.variables :
              afterNode[v] = {w \in crossword.words : Len(w) = v.length}
    /\ pc = "ac3_call" /\ ac3Log = <<>> => domains = afterNode

\* C11 witness: node consistency has just returned; it removed every word of
\* one slot and left another slot its words
C11_Witness ==
    /\ pc = "ac3_call"
    /\ \E v \in crossword.variables :
          domains[v] = {} /\ crossword.words # {}
    /\ \E v \in crossword.variables : domains[v] # {}

C12_WitnessDiffer ==
    /\ previous.ran /\ Finished
    /\ ~result.none /\ ~previous.result.none
    /\ result # previous.result

Disconnected ==
    \A u, v \in crossword.variables : overlaps(u, v) = None

\* for each slot length at least as many words as slots of that length
Ample ==
    \A v \in crossword.variables :
        Cardinality({w \in crossword.words : Len(w) = v.length})
            >= Cardinality({u \in crossword.variables : u.length = v.length})

\* C13: on a fully disconnected puzzle with enough words of each length, ac3
\* changes no domain and returns True, and the search returns a complete
\* assignment of pairwise distinct words.
C13_DisconnectedSolved ==
    Disconnected /\ Ample =>
        /\ NodeDone => domains = afterNode
        /\ Ac3Returned => ac3Log[1].ret /\ ac3Log[1].domains = afterNode
        /\ Finished =>
              /\ ~result.none
              /\ DOMAIN result.value = crossword.variables
              /\ \A u, v \in crossword.variables :
                    u # v => result.value[u] # result.value[v]

\* C13 witness: solve() returned an assignment for two apart slots of the
\* same length
C13_Witness ==
    /\ Finished /\ ~result.none
    /\ Ample
    /\ crossword.variables = StructureApart

SlotA == Variable(0, 0, ACROSS, 3)
SlotB == Variable(0, 1, DOWN, 3)

\* Scenario B: A and B cross at A index 1 / B index 0
ScenarioB ==
    /\ crossword.variables = StructureCross
    /\ domains[SlotA] = {CAT, DOG}
    /\ domains[SlotB] = {TOY, AGE}

Pairing(wa, wb) == [v \in StructureCross |-> IF v = SlotA THEN wa ELSE wb]

\* C14 as stated: in Scenario B the search returns A = CAT, B = TOY and
\* consistent() rejects every other pairing.
C14_Original ==
    ScenarioB /\ Finished =>
        /\ ~result.none /\ result.value = Pairing(CAT, TOY)
        /\ \A wa \in {CAT, DOG}, wb \in {TOY, AGE} :
              consistent(Pairing(wa, wb)) <=> (wa = CAT /\ wb = TOY)

\* C14 amended: in Scenario B the only pairing with equal characters at the
\* crossing is A = CAT, B = AGE; the search started from the empty assignment
\* returns exactly that pairing, and consistent() returns False for every
\* other combination of one word from each domain, CAT with TOY included.
C14_ScenarioB ==
    ScenarioB /\ Finished =>
        /\ overlaps(SlotA, SlotB) = <<1, 0>>
        /\ ~result.none /\ result.value = Pairing(CAT, AGE)
        /\ \A wa \in {CAT, DOG}, wb \in {TOY, AGE} :
              consistent(Pairing(wa, wb)) <=> (wa = CAT /\ wb = AGE)

\* C14 witness: the search of Scenario B has returned an assignment
C14_Witness == ScenarioB /\ Finished /\ ~result.none

\* C15: while a backtrack call is between trials, and when it returns None,
\* the assignment is what it was when the call was entered; after a failed
\* top-level call it is empty; at every entry its size is the recursion depth.
C15_UndoDiscipline ==
    /\ pc = "bt_loop" => assignment = Top.entry
    /\ pc = "bt_return" /\ retval.none =>
          assignment = IF stack = <<>> THEN EmptyAssignment
                       ELSE Assign(Top.entry, Top.var, Head(Top.values))
    /\ pc = "bt_enter" => Cardinality(DOMAIN assignment) = Len(stack)
    /\ \A k \in DOMAIN stack : Cardinality(DOMAIN stack[k].entry) = k - 1
    /\ Finished /\ result.none => assignment = EmptyAssignment

\* C15 witness: the top-level call returned None after a recursive call
\* had been made and had failed
C15_Witness ==
    /\ Finished /\ result.none
    /\ btCalls >= 2

\* the words of a are pairwise distinct, fit their slots and agree where two
\* assigned slots cross
PartialValid(a) ==
    /\ \A u, v \in DOMAIN a : u # v => a[u] # a[v]
    /\ \A v \in DOMAIN a : Len(a[v]) = v.length
    /\ \A u, v \in DOMAIN a :
          overlaps(u, v) # None =>
              a[u][overlaps(u, v)[1] + 1] = a[v][overlaps(u, v)[2] + 1]

\* C16: at every entry of backtrack during solve() the assignment passed in
\* is consistent: distinct words, of the slots' lengths, equal characters at
\* the overlaps of assigned slots.
C16_EntryConsistent ==
    pc = "bt_enter" => PartialValid(assignment)

\* C16 witness: a recursive entry with two crossing slots assigned
C16_Witness ==
    /\ pc = "bt_enter"
    /\ crossword.variables = StructureH
    /\ Cardinality(DOMAIN assignment) = 2

SearchPcs == {"bt_enter", "bt_loop", "bt_check", "bt_return"}

\* C17: from the first entry of backtrack until solve() returns, every domain
\* is what it was when ac3 finished.
C17_SearchKeepsDomains ==
    pc \in SearchPcs \cup {"done"} =>
        Ac3Returned /\ domains = ac3Log[1].domains

\* C17 witness: a recursive call has failed, on a store ac3 had pruned
C17_Witness ==
    /\ pc = "bt_return" /\ retval.none /\ stack # <<>>
    /\ domains # afterNode

\* C18: an ac3 step pops the head of the queue and keeps the order of the
\* rest; when revise removed a word and left the domain of x non-empty, the
\* arcs (z, x) for the neighbors z # y of x, and nothing else, are appended;
\* when revise removed nothing, nothing is appended.
C18_Propagation ==
    [][pc = "ac3_loop" /\ queue # <<>> =>
          LET x == Head(queue)[1]
              y == Head(queue)[2]
              removed == domains'[x] # domains[x]
              added == SubSeq(queue', Len(queue), Len(queue'))
          IN  /\ Len(queue') >= Len(queue) - 1
              /\ SubSeq(queue', 1, Len(queue) - 1) = Tail(queue)
              /\ \A v \in crossword.variables \ {x} : domains'[v] = domains[v]
              /\ removed /\ domains'[x] # {} =>
                    /\ {added[k] : k \in DOMAIN added}
                          = {<<z, x>> : z \in {z \in crossword.variables :
                                  z # x /\ z # y /\ overlaps(z, x) # None}}
                    /\ \A k, m \in DOMAIN added : k # m => added[k] # added[m]
                    /\ pc' = "ac3_loop"
              /\ ~removed => added = <<>> /\ pc' = "ac3_loop"]_vars

\* C18 witness: in the H, words were removed and an arc was appended: the
\* queue is as long as at the start although an arc was popped
C18_Witness ==
    /\ pc = "ac3_loop"
    /\ crossword.variables = StructureH
    /\ ac3Log = <<>>
    /\ domains # afterNode
    /\ ~SomeEmpty(domains)
    /\ Len(queue) >= 4

\* number of slots that cross var
Crossings(var) ==
    Cardinality({z \in crossword.variables : z # var /\ overlaps(var, z) # None})

\* C19: the slot select_unassigned_variable returned for a call is not in
\* the assignment of that call, has the smallest domain of the unassigned
\* slots, and the most neighbors among the unassigned slots of that size.
C19_SelectMrvDegree ==
    \A k \in DOMAIN stack :
        LET s == stack[k].var
            a == stack[k].entry
        IN  /\ s \in crossword.variables
            /\ s \notin DOMAIN a
            /\ \A u \in crossword.variables \ DOMAIN a :
                  /\ Cardinality(domains[s]) <= Cardinality(domains[u])
                  /\ Cardinality(domains[u]) = Cardinality(domains[s]) =>
                        Crossings(s) >= Crossings(u)

\* C19 witness: all three slots of the H have domains of one size and the
\* across slot, which is not first in the iteration order, was selected
C19_Witness ==
    /\ pc = "bt_loop" /\ Len(stack) = 1
    /\ crossword.variables = StructureH
    /\ \A u, v \in crossword.variables :
          Cardinality(domains[u]) = Cardinality(domains[v])
    /\ \A u \in crossword.variables : domains[u] # {}
    /\ Top.var = Variable(1, 0, ACROSS, 3)
    /\ order.vars[1] # Top.var

\* the pairs (unassigned neighbor n of var, word wn of domains[n]) whose
\* character at the overlap differs from the one of w
Eliminated(w, var, a) ==
    {p \in crossword.variables \X crossword.words :
        /\ p[1] # var
        /\ overlaps(var, p[1]) # None
        /\ p[1] \notin DOMAIN a
        /\ p[2] \in domains[p[1]]
        /\ w[overlaps(var, p[1])[1] + 1] # p[2][overlaps(var, p[1])[2] + 1]}

\* C20: for every unassigned slot, order_domain_values returns every word of
\* the slot's domain exactly once, in non-decreasing order of the number of
\* eliminated pairs; assigned neighbors are not counted.
C20_ValuesByEliminations ==
    pc = "bt_enter" =>
        \A var \in crossword.variables \ DOMAIN assignment :
            LET vals == order_domain_values(var, assignment)
            IN  /\ {vals[k] : k \in DOMAIN vals} = domains[var]
                /\ Len(vals) = Cardinality(domains[var])
                /\ \A w \in domains[var] :
                      EliminatedCount(w, var, assignment)
                          = Cardinality(Eliminated(w, var, assignment))
                /\ \A k, m \in DOMAIN vals :
                      k < m =>
                          Cardinality(Eliminated(vals[k], var, assignment))
                              <= Cardinality(Eliminated(vals[m], var, assignment))

\* C20 witness: an unassigned slot has an assigned and an unassigned
\* neighbor, and the words of an unassigned slot differ in their counts
C20_Witness ==
    /\ pc = "bt_enter"
    /\ \E var \in crossword.variables \ DOMAIN assignment :
          /\ \E n \in neighbors(var) : n \in DOMAIN assignment
          /\ \E n \in neighbors(var) : n \notin DOMAIN assignment
          /\ domains[var] # {}
    /\ \E var \in crossword.variables \ DOMAIN assignment :
          \E w1, w2 \in domains[var] :
                Cardinality(Eliminated(w1, var, assignment))
                    < Cardinality(Eliminated(w2, var, assignment))

\* C21: first solution wins. Once a backtrack call has returned an assignment,
\* every step that follows hands that same assignment to the enclosing call
\* (or, from the outermost call, to solve()): no further candidate is tried,
\* no entry is removed, no further call is made. The assignment is complete
\* and consistent, and no complete consistent assignment is passed over.
C21_FirstSolutionWins ==
    [][/\ (pc = "bt_return" /\ ~retval.none) =>
              /\ retval.value = assignment
              /\ assignment_complete(assignment) /\ consistent(assignment)
              /\ assignment' = assignment
              /\ retval' = retval
              /\ btCalls' = btCalls
              /\ IF stack # <<>>
                 THEN stack' = Pop /\ pc' = "bt_return"
                 ELSE pc' = "done" /\ result' = retval
       /\ (pc \in {"bt_loop", "bt_return"} /\ retval.none) =>
              ~assignment_complete(assignment)
       /\ (pc = "bt_check" /\ assignment_complete(assignment)
              /\ consistent(assignment)) =>
              assignment' = assignment /\ pc' = "bt_enter"
       /\ (pc = "bt_enter" /\ assignment_complete(assignment)) =>
              retval' = Some(assignment) /\ pc' = "bt_return"]_vars

\* C21 witness: an assignment is on its way up through two enclosing calls
\* of the H, the innermost of which has further candidates it did not try
C21_Witness ==
    /\ pc = "bt_return" /\ ~retval.none
    /\ crossword.variables = StructureH
    /\ Len(stack) = 2
    /\ Len(Top.values) >= 2
    /\ Len(stack[1].values) >= 2

\* the number of words in all domains
TotalWords(doms) ==
    SumOver([v \in crossword.variables |-> Cardinality(doms[v])],
            crossword.variables)

\* C22: ac3 terminates on every puzzle and every initial worklist: every run
\* reaches the return of ac3, with True and an empty worklist or with False
\* and an empty domain; and arcs are appended to the worklist only by a step
\* that removed at least one word from a domain.
C22_Ac3Terminates ==
    /\ <>(pc = "ac3_returned")
    /\ [](pc = "ac3_returned" =>
            /\ Len(ac3Log) = 1
            /\ \/ ac3Log[1].ret /\ queue = <<>>
               \/ ~ac3Log[1].ret /\ SomeEmpty(domains))
    /\ [][pc = "ac3_loop" /\ queue # <<>> /\ queue' # Tail(queue) =>
            TotalWords(domains') < TotalWords(domains)]_vars

\* C22 witness: ac3 returned True on the square after every slot lost a word
\* and kept another, each removal having appended an arc to the worklist
C22_Witness ==
    /\ pc = "ac3_returned" /\ Len(ac3Log) = 1 /\ ac3Log[1].ret
    /\ crossword.variables = StructureSquare
    /\ \A v \in crossword.variables :
          domains[v] # afterNode[v] /\ domains[v] # {}

RECURSIVE Extensions(_, _, _)
\* the mappings that extend a by a word of its domain in doms for every slot
\* of the sequence s, each word agreeing with a at every overlap
Extensions(a, s, doms) ==
    IF s = <<>> THEN {a}
    ELSE LET v == Head(s)
             ov == [u \in DOMAIN a |-> overlaps(u, v)]
             ws == {w \in doms[v] :
                      \A u \in DOMAIN a :
                          ov[u] # None =>
                              Char(a[u], ov[u][1]) = Char(w, ov[u][2])}
         IN  UNION {Extensions(Assign(a, v, w), Tail(s), doms) : w \in ws}

\* the mappings of every slot to a word of its domain in doms that satisfy
\* every overlap constraint
Mappings(doms) == Extensions(EmptyAssignment, order.vars, doms)

\* C23: ac3 preserves solutions: every mapping of the slots to words that is
\* drawn from the domains as they are when ac3 starts and satisfies every
\* overlap constraint is still drawn from the domains after any number of
\* ac3 steps (no word missing from a domain is a word of such a mapping); and
\* when such a mapping exists ac3 does not return False.
C23_Ac3PreservesSolutions ==
    NodeDone =>
        LET ms == Mappings(afterNode)
        IN  /\ \A v \in crossword.variables :
                  \A w \in afterNode[v] \ domains[v] :
                      \A a \in ms : a[v] # w
            /\ (\E k \in DOMAIN ac3Log : ~ac3Log[k].ret) => ms = {}

\* C23 witness: ac3 returned True on the H having removed words, and a
\* mapping satisfying every overlap constraint can be drawn from the domains
C23_Witness ==
    /\ pc = "ac3_returned" /\ Len(ac3Log) = 1 /\ ac3Log[1].ret
    /\ crossword.variables = StructureH
    /\ \A v \in crossword.variables : domains[v] # afterNode[v]
    /\ Mappings(afterNode) # {}

====
